---- MODULE Spec2Model ----
(***************************************************************************)
(* Long-polling event delivery core of Chat2                               *)
(* (backend/app/longpolling/manager.py, class LongPollingManager).         *)
(*                                                                         *)
(* Scheduling.  The manager runs on one asyncio event loop.  A coroutine   *)
(* gives up the loop only where an await really suspends.  Every block     *)
(* guarded by `async with self._lock` is free of suspensions               *)
(* (_get_missed_events and _notify_connections contain no await), so the   *)
(* lock is free at every scheduling point and Lock.acquire() takes its     *)
(* fast path, which does not suspend.  The only suspension of              *)
(* wait_for_events is `await asyncio.wait_for(future, timeout)`.  The      *)
(* variable `running` names the coroutine that owns the loop; the other    *)
(* actions are enabled only when nobody owns it.                           *)
(*                                                                         *)
(* asyncio.wait_for(future, timeout) is modelled as CPython 3.11 runs it.   *)
(* The timer and the caller's cancellation only wake the suspended task;   *)
(* the future stays pending, and registered, until the task runs again.    *)
(* When it does, wait_for returns the result if the future has one by      *)
(* then; otherwise it cancels the future, suspends once more until the     *)
(* cancellation has gone through, and raises TimeoutError or               *)
(* CancelledError.  A cancellation that arrives after the timer, before    *)
(* the call has resumed, turns the TimeoutError into a CancelledError.     *)
(*                                                                         *)
(* The locals of a call (its arguments, its future, its result) exist only *)
(* while the call runs: they are visible in the state in which the call is *)
(* about to hand its result to the caller (pc = "return") and are dropped   *)
(* when it has returned.                                                   *)
(*                                                                         *)
(* The specifications share the actions: Spec (one caller, any arguments), *)
(* FanOutSpec (two concurrent callers without cursor), PollSpec (one       *)
(* client polling for ever, under weak fairness), LogSpec (the deques      *)
(* under publishes and cleanups), RepeatSpec (a call made twice), PushSpec *)
(* (the SSE manager of backend/app/sse/events.py and its streams),         *)
(* ProducerSpec (create_message against both transports), FairFanOutSpec   *)
(* (two callers under the fairness of the event loop), HitSpec (a replay   *)
(* next to a suspended waiter) and SweepSpec (the cleanup next to a waiter *)
(* and an SSE stream).                                                     *)
(*                                                                         *)
(* Event.id is a str (nanoid.generate() in the emit_*_lp helpers), compared*)
(* with Python's str order; the model uses integers, a total order, and    *)
(* draws each new id from the unused ones.  Event.type and Event.data are  *)
(* never read by the manager and are left out of the record.               *)
(***************************************************************************)
EXTENDS Integers, Sequences, FiniteSets, TLC

\* ---------------------------------------------------------------- bounds
MaxEvents == 2      \* number of add_event calls in one behaviour
MaxBroadcasts == 2  \* number of SSE broadcasts in one behaviour
LogCapacity == 2    \* stands for deque(maxlen=100), manager.py:42,45,48

None == "None"               \* Python's None for an absent subject key
NoId == -1                   \* Python's None for an absent last_event_id
Users == {"u1"}
Channels == {"c1"}
Servers == {"s1"}
Calls == {"w1", "w2"}           \* concurrent wait_for_events calls
Sinks == {"q1", "q2"}           \* the asyncio.Queue of each SSE stream
Timestamps == {1, 2}            \* Event.timestamp: earlier, later (or equal)
Ids == 1..(LogCapacity + 1)     \* event ids: enough to overflow one deque
Cutoffs == {2, 3}               \* now - max_age_hours, on the scale of Timestamps
Cursors == 0..MaxEvents         \* last_event_id values a client may pass (0: below every id)

\* Event dataclass, manager.py:26-35
Event ==
  [id : Ids, timestamp : Timestamps, user_id : Users \cup {None},
   channel_id : Channels \cup {None}, server_id : Servers \cup {None}]

\* The lists a caller may pass as channels= / servers= (None and [] behave alike)
ChannelLists == {<<>>} \cup {<<c>> : c \in Channels}
ServerLists == {<<>>} \cup {<<s>> : s \in Servers}

VARIABLES
  user_events,          \* dict user_id -> deque of events (keys created on access)
  channel_events,       \* dict channel_id -> deque
  server_events,        \* dict server_id -> deque
  user_connections,     \* user_id -> set of pending calls (their futures)
  channel_connections,
  server_connections,
  lock,                 \* holder of self._lock, None when free
  running,              \* coroutine that owns the event loop, None between steps
  pc,                   \* position of each wait_for_events call
  args,                 \* arguments of each call
  future,               \* the asyncio.Future of each call
  wakeup,               \* what the suspended call resumes with
  ret,                  \* what the call returned or raised
  invalid_state,        \* add_event raised InvalidStateError (set_result on a done future)
  published,            \* history: every event passed to add_event, in order
  lost,                 \* history: a matching event was published between the call's
                        \* replay check and its registration
  sincePoll,            \* history: publishes since the poll client's last call began
  firstAt,              \* history: Len(published) when the poll client's first call began
  received,             \* history: events the poll client has been handed so far
  burst,                \* history: more than LogCapacity publishes between two polls
  repeated,             \* history: the call a client repeats, how often it has begun
                        \* it, and the deques and connection sets before the first
  sse_user_connections,     \* SSEManager.user_connections: user_id -> set of queues
  sse_channel_connections,  \* SSEManager.channel_connections
  sse_server_connections,   \* SSEManager.server_connections
  global_connections,       \* SSEManager.global_connections
  queue,                \* content of each stream's asyncio.Queue, oldest first
  stream,               \* each stream's generator: closed, or open with its keys
  broadcast_log,        \* history: every event broadcast, in order
  put_failed,           \* history: the queues whose put raised in the last broadcast
  sse_raised            \* history: a broadcast raised

vars == <<user_events, channel_events, server_events, user_connections,
          channel_connections, server_connections, lock, running, pc, args,
          future, wakeup, ret, invalid_state, published, lost, sincePoll,
          firstAt, received, burst, repeated, sse_user_connections,
          sse_channel_connections, sse_server_connections, global_connections,
          queue, stream, broadcast_log, put_failed, sse_raised>>

logs == <<user_events, channel_events, server_events>>
conns == <<user_connections, channel_connections, server_connections>>
hist == <<sincePoll, firstAt, received, burst, repeated>>
sse_conns == <<sse_user_connections, sse_channel_connections, sse_server_connections,
               global_connections>>
sse == <<sse_conns, queue, stream, broadcast_log, put_failed, sse_raised>>

\* ------------------------------------------------------------- helpers
Range(s) == {s[i] : i \in 1..Len(s)}

NoArgs == [user_id |-> None, last_event_id |-> NoId, channels |-> <<>>,
           servers |-> <<>>, poll |-> FALSE]
NoFuture == [state |-> "none", value |-> <<>>]
PendingFuture == [state |-> "pending", value |-> <<>>]
NoRet == [kind |-> "none", value |-> <<>>]
NotRepeated == [n |-> 0, a |-> NoArgs, logs |-> <<>>, conns |-> <<>>]
Closed == [kind |-> "closed", user_id |-> None, channel_id |-> None]

\* defaultdict(lambda: deque(maxlen=100)): d[k] creates an empty deque for a missing key
Get(d, k) == IF k \in DOMAIN d THEN d[k] ELSE <<>>
Touch(d, k) == IF k \in DOMAIN d THEN d ELSE [x \in DOMAIN d \cup {k} |-> IF x = k THEN <<>> ELSE d[x]]
Put(d, k, v) == [x \in DOMAIN d \cup {k} |-> IF x = k THEN v ELSE d[x]]

RECURSIVE TouchAll(_, _)
TouchAll(d, keys) ==
  IF keys = <<>> THEN d ELSE TouchAll(Touch(d, Head(keys)), Tail(keys))

\* DequeAppend gone wrong: a deque without maxlen
DequeAppendUnbounded(log, e) == Append(log, e)

\* DequeAppend gone wrong: a full deque drops its newest entry
DequeAppendDropsNewest(log, e) ==
  IF Len(log) >= LogCapacity THEN Append(SubSeq(log, 1, Len(log) - 1), e) ELSE Append(log, e)

\* DequeAppend gone wrong: the append is forgotten
DequeForget(log, e) == log

\* deque(maxlen=LogCapacity).append
DequeAppend(log, e) ==
  IF Len(log) >= LogCapacity THEN Append(Tail(log), e) ELSE Append(log, e)

\* ------------------------------------------- _get_missed_events (159-194)
\* the test `event.id > last_event_id`
IsNewer(e, last) == e.id > last

\* AppendNew gone wrong: the `event not in missed_events` test dropped
RECURSIVE AppendNewNoDedup(_, _, _)
AppendNewNoDedup(missed, log, last) ==
  IF log = <<>> THEN missed
  ELSE AppendNewNoDedup(IF IsNewer(Head(log), last) THEN Append(missed, Head(log)) ELSE missed,
                        Tail(log), last)

\* lines 180-182 and 187-189: one pass over a deque, appending what is newer
\* than the cursor and not yet collected
RECURSIVE AppendNew(_, _, _)
AppendNew(missed, log, last) ==
  IF log = <<>> THEN missed
  ELSE AppendNew(IF IsNewer(Head(log), last) /\ Head(log) \notin Range(missed)
                   THEN Append(missed, Head(log)) ELSE missed,
                 Tail(log), last)

\* lines 179-182 / 186-189: the loop over the channels (servers) of the call
RECURSIVE ScanKeys(_, _, _, _)
ScanKeys(missed, d, keys, last) ==
  IF keys = <<>> THEN missed
  ELSE ScanKeys(AppendNew(missed, Get(d, Head(keys)), last), d, Tail(keys), last)

\* lines 173-175: the user's deque is scanned without the membership test
UserScan(log, last) == SelectSeq(log, LAMBDA e : IsNewer(e, last))

\* list.sort(key=lambda e: e.timestamp): stable, ascending by timestamp
RECURSIVE InsertByTimestamp(_, _)
InsertByTimestamp(sorted, e) ==
  IF sorted = <<>> THEN <<e>>
  ELSE IF Head(sorted).timestamp <= e.timestamp
         THEN <<Head(sorted)>> \o InsertByTimestamp(Tail(sorted), e)
         ELSE <<e>> \o sorted

\* SortByTimestamp gone wrong: the sort left out
Unsorted(s) == s

RECURSIVE SortByTimestamp(_)
SortByTimestamp(s) ==
  IF s = <<>> THEN <<>>
  ELSE InsertByTimestamp(SortByTimestamp(SubSeq(s, 1, Len(s) - 1)), s[Len(s)])

\* line 167: `if not last_event_id`
CursorAbsent(last) == last = NoId

\* the value returned by _get_missed_events
GetMissedEvents(ue, ce, se, a) ==
  IF CursorAbsent(a.last_event_id) THEN <<>>
  ELSE SortByTimestamp(
         ScanKeys(ScanKeys(UserScan(Get(ue, a.user_id), a.last_event_id),
                           ce, a.channels, a.last_event_id),
                  se, a.servers, a.last_event_id))

\* its side effect: indexing the defaultdicts creates the keys it reads
TouchedUser(ue, a) == IF CursorAbsent(a.last_event_id) THEN ue ELSE Touch(ue, a.user_id)
TouchedKeys(d, keys, a) == IF CursorAbsent(a.last_event_id) THEN d ELSE TouchAll(d, keys)

\* ------------------------------------------------------------- Init
Init ==
  /\ user_events = <<>>
  /\ channel_events = <<>>
  /\ server_events = <<>>
  /\ user_connections = [u \in Users |-> {}]
  /\ channel_connections = [c \in Channels |-> {}]
  /\ server_connections = [s \in Servers |-> {}]
  /\ lock = None
  /\ running = None
  /\ pc = [w \in Calls |-> "idle"]
  /\ args = [w \in Calls |-> NoArgs]
  /\ future = [w \in Calls |-> NoFuture]
  /\ wakeup = [w \in Calls |-> "none"]
  /\ ret = [w \in Calls |-> NoRet]
  /\ invalid_state = FALSE
  /\ published = <<>>
  /\ lost = [w \in Calls |-> FALSE]
  /\ sincePoll = 0
  /\ firstAt = [w \in Calls |-> -1]
  /\ received = [w \in Calls |-> {}]
  /\ burst = FALSE
  /\ repeated = NotRepeated
  /\ sse_user_connections = <<>>
  /\ sse_channel_connections = <<>>
  /\ sse_server_connections = <<>>
  /\ global_connections = {}
  /\ queue = [q \in Sinks |-> <<>>]
  /\ stream = [q \in Sinks |-> Closed]
  /\ broadcast_log = <<>>
  /\ put_failed = {}
  /\ sse_raised = FALSE

\* ------------------------------------------- _notify_connections (77-87)
\* ShouldSet gone wrong: set_result without the done() test
ShouldSetAlways(f) == TRUE

\* line 82: `if not future.done()`
ShouldSet(f) == f.state = "pending"

\* Completed gone wrong: only the first future found is completed
CompletedFirstOnly(fut, connections) ==
  LET all == {w \in connections : ShouldSet(fut[w])}
  IN IF all = {} THEN {} ELSE {CHOOSE w \in all : TRUE}

\* lines 79-84: completed_futures, the futures of the set that get the result
Completed(fut, connections) == {w \in connections : ShouldSet(fut[w])}

\* SetResults gone wrong: the futures are resolved with an empty list
SetEmptyResults(fut, done, e) ==
  [w \in Calls |-> IF w \in done THEN [state |-> "result", value |-> <<>>] ELSE fut[w]]

\* lines 81-84: future.set_result([event]) on each of them; set_result on a
\* future that is already done raises InvalidStateError
SetResults(fut, done, e) ==
  [w \in Calls |-> IF w \in done THEN [state |-> "result", value |-> <<e>>] ELSE fut[w]]
Raises(fut, done) == \E w \in done : fut[w].state # "pending"

\* AfterChannel gone wrong: the channel block notifies every connection set
\* of the channel dict, not the set of the event's channel
AfterChannelNotifiesAll(e, f1) ==
  IF e.channel_id = None
    THEN [ev |-> channel_events, conn |-> channel_connections, fut |-> f1,
          err |-> FALSE, wk |-> {}]
    ELSE LET done == Completed(f1, UNION {channel_connections[k] : k \in DOMAIN channel_connections}
                                   \cup UNION {user_connections[k] : k \in DOMAIN user_connections})
         IN [ev |-> Put(channel_events, e.channel_id,
                        DequeAppend(Get(channel_events, e.channel_id), e)),
             conn |-> [k \in DOMAIN channel_connections |-> channel_connections[k] \ done],
             fut |-> SetResults(f1, done, e),
             err |-> Raises(f1, done), wk |-> done]

\* AfterUser gone wrong: no `if event.user_id:` test, None is a key like any other
AfterUserUnguarded(e) ==
  LET done == IF e.user_id \in DOMAIN user_connections
                THEN Completed(future, user_connections[e.user_id]) ELSE {}
  IN [ev |-> Put(user_events, e.user_id, DequeAppend(Get(user_events, e.user_id), e)),
      conn |-> [k \in DOMAIN user_connections |->
                  IF k = e.user_id THEN user_connections[k] \ done ELSE user_connections[k]],
      fut |-> SetResults(future, done, e),
      err |-> Raises(future, done), wk |-> done]

\* ----------------------------------------------------- add_event (61-75)
\* the three `if event.<key>:` blocks in order; each appends to the key's
\* deque and then notifies the key's connection set
AfterUser(e) ==
  IF e.user_id = None
    THEN [ev |-> user_events, conn |-> user_connections, fut |-> future,
          err |-> FALSE, wk |-> {}]
    ELSE LET done == Completed(future, user_connections[e.user_id])
         IN [ev |-> Put(user_events, e.user_id, DequeAppend(Get(user_events, e.user_id), e)),
             conn |-> [user_connections EXCEPT ![e.user_id] = @ \ done],
             fut |-> SetResults(future, done, e),
             err |-> Raises(future, done), wk |-> done]

AfterChannel(e, f1) ==
  IF e.channel_id = None
    THEN [ev |-> channel_events, conn |-> channel_connections, fut |-> f1,
          err |-> FALSE, wk |-> {}]
    ELSE LET done == Completed(f1, channel_connections[e.channel_id])
         IN [ev |-> Put(channel_events, e.channel_id,
                        DequeAppend(Get(channel_events, e.channel_id), e)),
             conn |-> [channel_connections EXCEPT ![e.channel_id] = @ \ done],
             fut |-> SetResults(f1, done, e),
             err |-> Raises(f1, done), wk |-> done]

AfterServer(e, f2) ==
  IF e.server_id = None
    THEN [ev |-> server_events, conn |-> server_connections, fut |-> f2,
          err |-> FALSE, wk |-> {}]
    ELSE LET done == Completed(f2, server_connections[e.server_id])
         IN [ev |-> Put(server_events, e.server_id,
                        DequeAppend(Get(server_events, e.server_id), e)),
             conn |-> [server_connections EXCEPT ![e.server_id] = @ \ done],
             fut |-> SetResults(f2, done, e),
             err |-> Raises(f2, done), wk |-> done]

UsedIds == {published[i].id : i \in 1..Len(published)}

\* does the event carry a subject key the call watches
Matches(e, a) ==
  \/ e.user_id # None /\ e.user_id = a.user_id
  \/ e.channel_id # None /\ e.channel_id \in Range(a.channels)
  \/ e.server_id # None /\ e.server_id \in Range(a.servers)

IsPolling == \E w \in Calls : firstAt[w] >= 0

AddEvent(e) ==
  /\ running = None
  /\ lock = None
  /\ e.id \notin UsedIds
  /\ LET u == AfterUser(e)
         c == AfterChannel(e, u.fut)
         s == AfterServer(e, c.fut)
         woken == u.wk \cup c.wk \cup s.wk
     IN /\ user_events' = u.ev
        /\ channel_events' = c.ev
        /\ server_events' = s.ev
        /\ user_connections' = u.conn
        /\ channel_connections' = c.conn
        /\ server_connections' = s.conn
        /\ future' = s.fut
        /\ wakeup' = [w \in Calls |-> IF w \in woken THEN "result" ELSE wakeup[w]]
        /\ invalid_state' = (invalid_state \/ u.err \/ c.err \/ s.err)
  /\ published' = Append(published, e)
  /\ lost' = [w \in Calls |-> lost[w] \/ (pc[w] = "register" /\ Matches(e, args[w]))]
  /\ sincePoll' = IF IsPolling THEN sincePoll + 1 ELSE sincePoll
  /\ burst' = (burst \/ (IsPolling /\ sincePoll + 1 > LogCapacity))
  /\ UNCHANGED <<lock, running, pc, args, ret, firstAt, received, repeated, sse>>

\* ------------------------------------------- cleanup_old_events (196-226)
\* PopOld gone wrong: `<=` in place of `<`
RECURSIVE PopOldOrEqual(_, _)
PopOldOrEqual(events, cutoff) ==
  IF events # <<>> /\ Head(events).timestamp <= cutoff
    THEN PopOldOrEqual(Tail(events), cutoff) ELSE events

\* lines 204-205: `while events and events[0].timestamp < cutoff_time: events.popleft()`
RECURSIVE PopOld(_, _)
PopOld(events, cutoff) ==
  IF events # <<>> /\ Head(events).timestamp < cutoff
    THEN PopOld(Tail(events), cutoff) ELSE events

\* lines 207-208: `if not events: del self.user_events[user_id]`
DelEmpty(d) == [k \in {x \in DOMAIN d : d[x] # <<>>} |-> d[k]]

\* lines 202-208 (211-217, 220-226): the loop over the keys of one dict
CleanDict(d, cutoff) == DelEmpty([k \in DOMAIN d |-> PopOld(d[k], cutoff)])

\* Swept gone wrong: the sweep empties the connection sets as well
SweptEmpty(connections) == [k \in DOMAIN connections |-> {}]

\* lines 200-226 name the three event dicts only: the sweep leaves every
\* connection set as it is
Swept(connections) == connections

\* the whole of cleanup_old_events, under the lock, without a suspension
Cleanup(cutoff) ==
  /\ running = None
  /\ lock = None
  /\ user_events' = CleanDict(user_events, cutoff)
  /\ channel_events' = CleanDict(channel_events, cutoff)
  /\ server_events' = CleanDict(server_events, cutoff)
  /\ user_connections' = Swept(user_connections)
  /\ channel_connections' = Swept(channel_connections)
  /\ server_connections' = Swept(server_connections)
  /\ UNCHANGED <<lock, running, pc, args, future, wakeup, ret, invalid_state,
                 published, lost, hist, sse>>

\* ----------------------------------------------- wait_for_events (89-157)
\* LockAcquireSuspends gone wrong: entering `async with self._lock` always
\* gives the loop to another task
LockAcquireAlwaysSuspends == TRUE

\* `async with self._lock` (line 124): asyncio.Lock.acquire() suspends the
\* caller only when the lock is held
LockAcquireSuspends == lock # None

RECURSIVE AddAll(_, _, _)
AddAll(connections, keys, w) ==
  IF keys = <<>> THEN connections
  ELSE AddAll([connections EXCEPT ![Head(keys)] = @ \cup {w}], Tail(keys), w)

RECURSIVE DiscardAll(_, _, _)
DiscardAll(connections, keys, w) ==
  IF keys = <<>> THEN connections
  ELSE DiscardAll([connections EXCEPT ![Head(keys)] = @ \ {w}], Tail(keys), w)

\* ReturnsAtOnce gone wrong: no early return, every call goes on to register
NeverAtOnce(missed) == FALSE

\* lines 116-117: `if missed_events: return missed_events`
ReturnsAtOnce(missed) == missed # <<>>

\* lines 110-120: the replay check under the lock; a hit is returned at once,
\* otherwise the future is created
StartCall(w, a) ==
  /\ running = None
  /\ lock = None
  /\ LET missed == GetMissedEvents(user_events, channel_events, server_events, a)
     IN IF ReturnsAtOnce(missed)
          THEN /\ pc' = [pc EXCEPT ![w] = "return"]
               /\ ret' = [ret EXCEPT ![w] = [kind |-> "return", value |-> missed]]
               /\ future' = [future EXCEPT ![w] = NoFuture]
               /\ running' = w
          ELSE /\ pc' = [pc EXCEPT ![w] = "register"]
               /\ ret' = [ret EXCEPT ![w] = NoRet]
               /\ future' = [future EXCEPT ![w] = PendingFuture]
               /\ running' = IF LockAcquireSuspends THEN None ELSE w
  /\ user_events' = TouchedUser(user_events, a)
  /\ channel_events' = TouchedKeys(channel_events, a.channels, a)
  /\ server_events' = TouchedKeys(server_events, a.servers, a)
  /\ args' = [args EXCEPT ![w] = a]
  /\ wakeup' = [wakeup EXCEPT ![w] = "none"]
  /\ UNCHANGED <<conns, lock, invalid_state, published, lost, sse>>

\* lines 117, 138, 140: the call hands its result to the caller (or the
\* CancelledError propagates); its frame and locals, the future among them, are gone
Return(w) ==
  /\ pc[w] = "return"
  /\ running = w
  /\ pc' = [pc EXCEPT ![w] = "idle"]
  /\ args' = [args EXCEPT ![w] = NoArgs]
  /\ future' = [future EXCEPT ![w] = NoFuture]
  /\ wakeup' = [wakeup EXCEPT ![w] = "none"]
  /\ ret' = [ret EXCEPT ![w] = NoRet]
  /\ running' = None
  /\ received' = [received EXCEPT ![w] =
                    IF args[w].poll /\ ret[w].kind = "return"
                      THEN @ \cup {ret[w].value[i].id : i \in 1..Len(ret[w].value)}
                      ELSE @]
  /\ UNCHANGED <<logs, conns, lock, invalid_state, published, lost, sincePoll, firstAt,
                 burst, repeated, sse>>

\* a call with any arguments
Begin(w) ==
  /\ pc[w] = "idle"
  /\ \E u \in Users, last \in {NoId} \cup Cursors, ch \in ChannelLists, sv \in ServerLists :
       StartCall(w, [user_id |-> u, last_event_id |-> last, channels |-> ch,
                     servers |-> sv, poll |-> FALSE])
  /\ UNCHANGED hist

\* a call without last_event_id (a client's first poll)
BeginFirst(w) ==
  /\ pc[w] = "idle"
  /\ \E u \in Users, ch \in ChannelLists, sv \in ServerLists :
       StartCall(w, [user_id |-> u, last_event_id |-> NoId, channels |-> ch,
                     servers |-> sv, poll |-> FALSE])
  /\ UNCHANGED hist

\* the poll client: it polls its user, channel c1 and server s1, and passes as
\* last_event_id the greatest id it has received so far, none before that
Greatest(S) == CHOOSE x \in S : \A y \in S : y <= x
PollCursor(w) == IF received[w] = {} THEN NoId ELSE Greatest(received[w])

BeginPoll(w) ==
  /\ pc[w] = "idle"
  /\ StartCall(w, [user_id |-> "u1", last_event_id |-> PollCursor(w),
                   channels |-> <<"c1">>, servers |-> <<"s1">>, poll |-> TRUE])
  /\ firstAt' = [firstAt EXCEPT ![w] = IF @ < 0 THEN Len(published) ELSE @]
  /\ sincePoll' = 0
  /\ UNCHANGED <<received, burst, repeated>>

\* AddUser gone wrong: the future is not put under the user key
SkipUser(connections, user_id, w) == connections

\* line 125: `self.user_connections[user_id].add(future)`, whatever channels
\* and servers are
AddUser(connections, user_id, w) == [connections EXCEPT ![user_id] = @ \cup {w}]

\* ReleasedOnExit gone wrong: the await of line 137 sits inside the
\* `async with` block
HeldAcrossAwait(w) == w

\* lines 124-135: the `async with self._lock` block of the registration ends
\* at line 133 and releases the lock; the await of line 137 is outside it
ReleasedOnExit(w) == None

\* lines 124-133: registration of the future under the user, the channels and
\* the servers of the call; then line 137 suspends on the pending future
Register(w) ==
  /\ pc[w] = "register"
  /\ running \in {w, None}
  /\ lock = None
  /\ user_connections' = AddUser(user_connections, args[w].user_id, w)
  /\ channel_connections' = AddAll(channel_connections, args[w].channels, w)
  /\ server_connections' = AddAll(server_connections, args[w].servers, w)
  /\ pc' = [pc EXCEPT ![w] = "await"]
  /\ running' = None
  \* last_event_id is not read again after the replay check
  /\ args' = [args EXCEPT ![w].last_event_id = NoId]
  /\ lock' = ReleasedOnExit(w)
  /\ UNCHANGED <<logs, future, wakeup, ret, invalid_state, published,
                 lost, hist, sse>>

\* TimerArmed gone wrong: timeout=None, wait_for arms no timer
NoTimer(w) == FALSE

\* line 93: `timeout: float = 30.0`; the endpoints pass a number between 1.0
\* and 60.0 (longpolling/events.py, 23), so wait_for always arms a timer
TimerArmed(w) == TRUE

\* asyncio.wait_for (line 137): the timer expires and wakes the suspended
\* task; the future is still pending
TimerFires(w) ==
  /\ running = None
  /\ TimerArmed(w)
  /\ pc[w] = "await"
  /\ wakeup[w] = "none"
  /\ wakeup' = [wakeup EXCEPT ![w] = "timeout"]
  /\ UNCHANGED <<logs, conns, lock, running, pc, args, future, ret, invalid_state,
                 published, lost, hist, sse>>

\* the caller's task is cancelled (client disconnect) while suspended at line
\* 137: the task will resume with CancelledError, also when the timer has
\* already fired; a task that is about to resume with a result keeps it
Cancel(w) ==
  /\ running = None
  /\ pc[w] = "await"
  /\ wakeup[w] \in {"none", "timeout"}
  /\ wakeup' = [wakeup EXCEPT ![w] = "cancelled"]
  /\ UNCHANGED <<logs, conns, lock, running, pc, args, future, ret, invalid_state,
                 published, lost, hist, sse>>

\* asyncio.wait_for (line 137): the task runs again without a result; wait_for
\* cancels the future and suspends until the cancellation has gone through
GiveUp(w) ==
  /\ running = None
  /\ pc[w] = "await"
  /\ wakeup[w] \in {"timeout", "cancelled"}
  /\ future[w].state = "pending"
  /\ future' = [future EXCEPT ![w].state = "cancelled"]
  /\ UNCHANGED <<logs, conns, lock, running, pc, args, wakeup, ret, invalid_state,
                 published, lost, hist, sse>>

\* OnTimeout gone wrong: no `except asyncio.TimeoutError` clause
TimeoutPropagates == [kind |-> "raise", value |-> <<>>]

\* lines 139-140: `except asyncio.TimeoutError: return []`
OnTimeout == [kind |-> "return", value |-> <<>>]

\* lines 136-140: what the call hands to its caller when it resumes
Outcome(w) ==
  CASE wakeup[w] = "result" -> [kind |-> "return", value |-> future[w].value]
    [] wakeup[w] = "timeout" -> OnTimeout
    [] OTHER -> [kind |-> "raise", value |-> <<>>]

\* DiscardServers gone wrong: the server sets are forgotten in the cleanup
KeepServers(connections, keys, w) == connections

\* lines 151-153
DiscardServers(connections, keys, w) == DiscardAll(connections, keys, w)

\* FinallyCancel gone wrong: the future is cancelled whatever its state
CancelAlways(f) == [f EXCEPT !.state = "cancelled"]

\* lines 156-157: `if not future.done(): future.cancel()`
FinallyCancel(f) == IF f.state = "pending" THEN [f EXCEPT !.state = "cancelled"] ELSE f

\* lines 136-157: the suspended call resumes with the result, the timeout or
\* the cancellation, and the finally block removes its future from every set
Resume(w) ==
  /\ running = None
  /\ lock = None
  /\ pc[w] = "await"
  /\ wakeup[w] # "none"
  /\ future[w].state # "pending"
  /\ ret' = [ret EXCEPT ![w] = Outcome(w)]
  /\ user_connections' = [user_connections EXCEPT ![args[w].user_id] = @ \ {w}]
  /\ channel_connections' = DiscardAll(channel_connections, args[w].channels, w)
  /\ server_connections' = DiscardServers(server_connections, args[w].servers, w)
  /\ future' = [future EXCEPT ![w] = FinallyCancel(@)]
  /\ pc' = [pc EXCEPT ![w] = "return"]
  /\ running' = w
  /\ UNCHANGED <<logs, lock, args, wakeup, invalid_state, published, lost, hist, sse>>

\* ------------------------------------ SSEManager (sse/events.py, 19-137)
lp == <<logs, conns, lock, running, pc, args, future, wakeup, ret, invalid_state,
        published, lost, hist>>

\* defaultdict(set): d[k] is the empty set for a missing key
GetSet(d, k) == IF k \in DOMAIN d THEN d[k] ELSE {}

\* add_user_connection / add_channel_connection / add_server_connection
\* (lines 30-32, 40-42, 50-52)
AddConnection(d, k, q) == Put(d, k, GetSet(d, k) \cup {q})

\* RemoveConnection gone wrong: the queue is left in the set
RemoveNothing(d, k, q) == d

\* remove_user_connection / remove_channel_connection / remove_server_connection
\* (lines 34-38, 44-48, 54-58): discard, then delete the key if its set is empty
RemoveConnection(d, k, q) ==
  LET rest == GetSet(d, k) \ {q}
  IN IF rest = {} THEN [x \in DOMAIN d \ {k} |-> d[x]] ELSE Put(d, k, rest)

\* the event dict built by a broadcast (lines 63-67); seq stands for its data
SseEvent(kind, k) == [seq |-> Len(broadcast_log) + 1, kind |-> kind, key |-> k]

\* Delivered gone wrong: no try/except around put, and the failing queue came first
DeliveredUntilFailure(targets, failing) == IF failing = {} THEN targets ELSE {}

\* lines 70-74: every queue of the set is tried; those whose put raises are
\* collected in dead_queues, the others hold the event
Delivered(targets, failing) == targets \ failing

\* lines 73-74: the bare `except:` swallows whatever put raises
BroadcastRaises(failing) == FALSE

\* DropDead gone wrong: no `if user_id in self.user_connections` test, the
\* defaultdict is indexed and creates the key
DropDeadIndexed(d, k, dead) == Put(d, k, GetSet(d, k) \ dead)

\* lines 76-78: dead queues are discarded from the set of the key being broadcast
DropDead(d, k, dead) == IF k \in DOMAIN d THEN [d EXCEPT ![k] = @ \ dead] ELSE d

\* the part the four broadcasts share: the puts and the bookkeeping
Broadcast(ev, targets, failing) ==
  /\ running = None
  /\ Len(broadcast_log) < MaxBroadcasts
  /\ failing \subseteq targets
  /\ queue' = [q \in Sinks |->
                 IF q \in Delivered(targets, failing) THEN Append(queue[q], ev) ELSE queue[q]]
  /\ broadcast_log' = Append(broadcast_log, ev)
  /\ put_failed' = failing
  /\ sse_raised' = (sse_raised \/ BroadcastRaises(failing))
  /\ UNCHANGED <<lp, stream>>

\* broadcast_to_user, lines 60-78
BroadcastToUser(user_id, failing) ==
  /\ Broadcast(SseEvent("user", user_id), GetSet(sse_user_connections, user_id), failing)
  /\ sse_user_connections' = DropDead(sse_user_connections, user_id, failing)
  /\ UNCHANGED <<sse_channel_connections, sse_server_connections, global_connections>>

\* broadcast_to_channel, lines 80-98
BroadcastToChannel(channel_id, failing) ==
  /\ Broadcast(SseEvent("channel", channel_id),
               GetSet(sse_channel_connections, channel_id), failing)
  /\ sse_channel_connections' = DropDead(sse_channel_connections, channel_id, failing)
  /\ UNCHANGED <<sse_user_connections, sse_server_connections, global_connections>>

\* broadcast_to_server, lines 100-118
BroadcastToServer(server_id, failing) ==
  /\ Broadcast(SseEvent("server", server_id),
               GetSet(sse_server_connections, server_id), failing)
  /\ sse_server_connections' = DropDead(sse_server_connections, server_id, failing)
  /\ UNCHANGED <<sse_user_connections, sse_channel_connections, global_connections>>

\* broadcast_global, lines 120-137
BroadcastGlobal(failing) ==
  /\ Broadcast(SseEvent("global", None), global_connections, failing)
  /\ global_connections' = global_connections \ failing
  /\ UNCHANGED <<sse_user_connections, sse_channel_connections, sse_server_connections>>

\* ------------------------------- the SSE streams (sse/events.py, 142-266)
\* event_stream.event_generator, lines 151-156: a fresh queue, registered
\* under the user
OpenUserStream(q, u) ==
  /\ running = None
  /\ stream[q] = Closed
  /\ queue' = [queue EXCEPT ![q] = <<>>]
  /\ sse_user_connections' = AddConnection(sse_user_connections, u, q)
  /\ stream' = [stream EXCEPT ![q] = [kind |-> "user", user_id |-> u, channel_id |-> None]]
  /\ UNCHANGED <<lp, sse_channel_connections, sse_server_connections, global_connections,
                 broadcast_log, put_failed, sse_raised>>

\* channel_event_stream.event_generator, lines 218-224: a fresh queue,
\* registered under the user and under the channel
OpenChannelStream(q, u, c) ==
  /\ running = None
  /\ stream[q] = Closed
  /\ queue' = [queue EXCEPT ![q] = <<>>]
  /\ sse_user_connections' = AddConnection(sse_user_connections, u, q)
  /\ sse_channel_connections' = AddConnection(sse_channel_connections, c, q)
  /\ stream' = [stream EXCEPT ![q] = [kind |-> "channel", user_id |-> u, channel_id |-> c]]
  /\ UNCHANGED <<lp, sse_server_connections, global_connections, broadcast_log,
                 put_failed, sse_raised>>

\* lines 172-177, 240-245: the generator takes the oldest event off its queue
\* and yields it to the client
Dequeue(q) ==
  /\ running = None
  /\ stream[q] # Closed
  /\ queue[q] # <<>>
  /\ queue' = [queue EXCEPT ![q] = Tail(@)]
  /\ UNCHANGED <<lp, sse_conns, stream, broadcast_log, put_failed, sse_raised>>

\* the finally blocks, lines 195-197 and 261-264: the stream ends (client
\* gone, error or cancellation) and removes its queue from the keys it
\* registered under; the queue is gone with the generator
CloseStream(q) ==
  /\ running = None
  /\ stream[q] # Closed
  /\ sse_user_connections' = RemoveConnection(sse_user_connections, stream[q].user_id, q)
  /\ sse_channel_connections' =
       IF stream[q].kind = "channel"
         THEN RemoveConnection(sse_channel_connections, stream[q].channel_id, q)
         ELSE sse_channel_connections
  /\ stream' = [stream EXCEPT ![q] = Closed]
  /\ queue' = [queue EXCEPT ![q] = <<>>]
  /\ UNCHANGED <<lp, sse_server_connections, global_connections, broadcast_log,
                 put_failed, sse_raised>>

\* create_message (api/endpoints/messages.py, 108-122): after the write it
\* awaits emit_message_created (sse/events.py, 270-276), which broadcasts to
\* the channel of the message; it calls nothing of the long-polling manager
CreateMessage(channel_id) ==
  \E failing \in SUBSET Sinks : BroadcastToChannel(channel_id, failing)

\* ------------------------------------------------------ specifications
\* a producer that publishes MaxEvents events (emit_*_lp, lines 245-349)
Emit(e) ==
  /\ Len(published) < MaxEvents
  /\ e.id <= MaxEvents
  /\ AddEvent(e)

\* one caller at a time, any arguments, against any publishes
Next ==
  \/ \E e \in Event : Emit(e)
  \/ Begin("w1")
  \/ Return("w1")
  \/ Register("w1")
  \/ TimerFires("w1")
  \/ Cancel("w1")
  \/ GiveUp("w1")
  \/ Resume("w1")

Spec == Init /\ [][Next]_vars

\* two concurrent first polls.  No call passes a cursor here, so no event id
\* and no timestamp is ever read: ids are handed out in publish order and the
\* timestamp is fixed.
AddEventInOrder(e) ==
  /\ Len(published) < MaxEvents
  /\ e.id = Len(published) + 1
  /\ e.timestamp = 1
  /\ AddEvent(e)

NextFanOut ==
  \/ \E e \in Event : AddEventInOrder(e)
  \/ \E w \in Calls : BeginFirst(w)
  \/ \E w \in Calls : Return(w)
  \/ \E w \in Calls : Register(w)
  \/ \E w \in Calls : TimerFires(w)
  \/ \E w \in Calls : Cancel(w)
  \/ \E w \in Calls : GiveUp(w)
  \/ \E w \in Calls : Resume(w)

FanOutSpec == Init /\ [][NextFanOut]_vars

\* one poll client that polls again and again.  The event loop runs every
\* ready coroutine and every due timer, and the client always polls again.
NextPoll ==
  \/ \E e \in Event : Emit(e)
  \/ BeginPoll("w1")
  \/ Return("w1")
  \/ Register("w1")
  \/ TimerFires("w1")
  \/ GiveUp("w1")
  \/ Resume("w1")

PollSpec ==
  /\ Init
  /\ [][NextPoll]_vars
  /\ WF_vars(BeginPoll("w1"))
  /\ WF_vars(Return("w1"))
  /\ WF_vars(Register("w1"))
  /\ WF_vars(TimerFires("w1"))
  /\ WF_vars(GiveUp("w1"))
  /\ WF_vars(Resume("w1"))

\* two concurrent first polls, cancellations, and publishes to channels (a
\* call that watches the channel is woken, the others are left to their
\* timers), under the scheduling of the event loop: a
\* coroutine that owns the loop runs on to its next suspension (weak
\* fairness of Register and Return), and the loop's ready queue is first in,
\* first out, so a due timer and a woken task get their turn however often
\* other tasks run in between (strong fairness of TimerFires, GiveUp, Resume)
NextFair ==
  \/ \E e \in Event : e.user_id = None /\ e.server_id = None /\ AddEventInOrder(e)
  \/ \E w \in Calls : BeginFirst(w)
  \/ \E w \in Calls : Return(w)
  \/ \E w \in Calls : Register(w)
  \/ \E w \in Calls : TimerFires(w)
  \/ \E w \in Calls : Cancel(w)
  \/ \E w \in Calls : GiveUp(w)
  \/ \E w \in Calls : Resume(w)

FairFanOutSpec ==
  /\ Init
  /\ [][NextFair]_vars
  /\ \A w \in Calls :
       /\ WF_vars(Register(w))
       /\ WF_vars(Return(w))
       /\ SF_vars(TimerFires(w))
       /\ SF_vars(GiveUp(w))
       /\ SF_vars(Resume(w))

\* the replay logs over time: enough publishes to one user or channel to
\* overflow a deque, the cleanup at any moment, and one caller that replays
\* from below every id.  No cursor other than that one is passed, so ids are
\* handed out in publish order.
AddLogEvent(e) ==
  /\ Len(published) < LogCapacity + 1
  /\ e.id = Len(published) + 1
  /\ e.server_id = None
  /\ AddEvent(e)

BeginReplay(w) ==
  /\ pc[w] = "idle"
  /\ \E u \in Users, ch \in ChannelLists :
       StartCall(w, [user_id |-> u, last_event_id |-> 0, channels |-> ch,
                     servers |-> <<>>, poll |-> FALSE])
  /\ UNCHANGED hist

NextLog ==
  \/ \E e \in Event : AddLogEvent(e)
  \/ \E cutoff \in Cutoffs : Cleanup(cutoff)
  \/ BeginReplay("w1")
  \/ Return("w1")
  \/ Register("w1")
  \/ TimerFires("w1")
  \/ GiveUp("w1")
  \/ Resume("w1")

LogSpec == Init /\ [][NextLog]_vars

\* the sweep next to both transports: periodic_cleanup (server.py, 63-74) and
\* POST /cleanup run cleanup_old_events at any moment, while a poll caller
\* waits and an SSE stream of a channel is open and receives messages; the
\* events go to users and channels and are all older than the cutoffs
NextSweep ==
  \/ \E e \in Event : e.server_id = None /\ AddEventInOrder(e)
  \/ \E cutoff \in Cutoffs : Cleanup(cutoff)
  \/ BeginFirst("w1")
  \/ Return("w1")
  \/ Register("w1")
  \/ TimerFires("w1")
  \/ GiveUp("w1")
  \/ Resume("w1")
  \/ \E u \in Users, c \in Channels : OpenChannelStream("q1", u, c)
  \/ \E c \in Channels : CreateMessage(c)
  \/ CloseStream("q1")

SweepSpec == Init /\ [][NextSweep]_vars

\* a replay next to a waiter: w2 polls without cursor and stays registered
\* while w1 calls with a cursor below every id
NextHit ==
  \/ \E e \in Event : AddEventInOrder(e)
  \/ BeginReplay("w1")
  \/ BeginFirst("w2")
  \/ \E w \in Calls : Return(w)
  \/ \E w \in Calls : Register(w)
  \/ \E w \in Calls : TimerFires(w)
  \/ \E w \in Calls : GiveUp(w)
  \/ \E w \in Calls : Resume(w)

HitSpec == Init /\ [][NextHit]_vars

\* a client that makes the same call twice, after the producers and the
\* cleanup have stopped
BeginRepeat(w) ==
  /\ pc[w] = "idle"
  /\ repeated.n < 2
  /\ \E u \in Users, last \in {NoId} \cup Cursors, ch \in ChannelLists :
       LET a == IF repeated.n = 0
                  THEN [user_id |-> u, last_event_id |-> last, channels |-> ch,
                        servers |-> <<>>, poll |-> FALSE]
                  ELSE repeated.a
       IN /\ StartCall(w, a)
          /\ repeated' = IF repeated.n = 0
                            THEN [n |-> 1, a |-> a, logs |-> logs, conns |-> conns]
                            ELSE [repeated EXCEPT !.n = 2]
  /\ UNCHANGED <<sincePoll, firstAt, received, burst>>

NextRepeat ==
  \/ \E e \in Event : repeated.n = 0 /\ AddLogEvent(e)
  \/ \E cutoff \in Cutoffs : repeated.n = 0 /\ Cleanup(cutoff)
  \/ BeginRepeat("w1")
  \/ Return("w1")
  \/ Register("w1")
  \/ TimerFires("w1")
  \/ GiveUp("w1")
  \/ Resume("w1")

RepeatSpec == Init /\ [][NextRepeat]_vars

\* the SSE manager, its streams and every broadcast, any put of which may raise
NextPush ==
  \/ \E q \in Sinks, u \in Users : OpenUserStream(q, u)
  \/ \E q \in Sinks, u \in Users, c \in Channels : OpenChannelStream(q, u, c)
  \/ \E q \in Sinks : Dequeue(q)
  \/ \E q \in Sinks : CloseStream(q)
  \/ \E u \in Users, failing \in SUBSET Sinks : BroadcastToUser(u, failing)
  \/ \E c \in Channels, failing \in SUBSET Sinks : BroadcastToChannel(c, failing)
  \/ \E sv \in Servers, failing \in SUBSET Sinks : BroadcastToServer(sv, failing)
  \/ \E failing \in SUBSET Sinks : BroadcastGlobal(failing)

PushSpec == Init /\ [][NextPush]_vars

\* the message endpoint against both transports: one SSE stream and one
\* long-polling call watch the channel the messages are created in
NextProducer ==
  \/ \E c \in Channels : CreateMessage(c)
  \/ \E u \in Users, c \in Channels : OpenChannelStream("q1", u, c)
  \/ Dequeue("q1")
  \/ CloseStream("q1")
  \/ BeginFirst("w1")
  \/ Return("w1")
  \/ Register("w1")
  \/ TimerFires("w1")
  \/ GiveUp("w1")
  \/ Resume("w1")

ProducerSpec == Init /\ [][NextProducer]_vars

\* ------------------------------------------------------------ properties
\* the call has just run its replay check and still owns the event loop, so
\* the deques are as the check saw them
JustChecked(w) ==
  \/ pc[w] = "register" /\ running = w
  \/ pc[w] = "return" /\ future[w].state = "none"

ReplayReturned(w) == pc[w] = "return" /\ future[w].state = "none"

\* events held in the deque of a key the call watches
Retained(a) ==
  Range(Get(user_events, a.user_id))
    \cup UNION {Range(Get(channel_events, a.channels[i])) : i \in 1..Len(a.channels)}
    \cup UNION {Range(Get(server_events, a.servers[i])) : i \in 1..Len(a.servers)}

RetainedNewer(a) == {e \in Retained(a) : e.id > a.last_event_id}

Resolved(e) == [state |-> "result", value |-> <<e>>]

\* the call's future is pending and sits in a connection set the event notifies
PendingOn(w, e) ==
  /\ future[w].state = "pending"
  /\ \/ e.user_id # None /\ w \in user_connections[e.user_id]
     \/ e.channel_id # None /\ w \in channel_connections[e.channel_id]
     \/ e.server_id # None /\ w \in server_connections[e.server_id]

Registered(w) ==
  \/ \E u \in Users : w \in user_connections[u]
  \/ \E c \in Channels : w \in channel_connections[c]
  \/ \E sv \in Servers : w \in server_connections[sv]

\* C1: no event matching a call's filter is published between the call's
\* replay check and the registration of its future, so none is missed by
\* both the replay check and the newly registered waiter
C1_NoLostWakeup == \A w \in Calls : ~lost[w]

\* an event published while the call was suspended reached its waiter
C1_Witness ==
  /\ pc["w1"] = "await"
  /\ future["w1"].state = "result"
  /\ args["w1"].channels # <<>>
  /\ published # <<>>
  /\ future["w1"].value = <<published[Len(published)]>>

\* the poll client's filter, and the events owed to it: those published to one
\* of its keys after its first call began
PollArgs == [user_id |-> "u1", channels |-> <<"c1">>, servers |-> <<"s1">>]
Owed(i) ==
  /\ firstAt["w1"] >= 0
  /\ \E k \in (firstAt["w1"] + 1)..Len(published) :
       published[k].id = i /\ Matches(published[k], PollArgs)

\* C2: a poll client that always passes the greatest id it has received
\* (none at first) eventually receives every event published to a key of its
\* filter after its first call began, unless more than LogCapacity events
\* were published between two of its calls
C2_ReconnectWithoutLoss ==
  \A i \in Ids : Owed(i) ~> (i \in received["w1"] \/ burst)

\* C3: with a cursor, the replay check yields exactly the retained events of
\* the watched keys whose id is greater than the cursor, each once; the call
\* returns them at once when there are any
C3_ReplayExact ==
  \A w \in Calls :
    (JustChecked(w) /\ args[w].last_event_id # NoId) =>
      IF RetainedNewer(args[w]) = {}
        THEN pc[w] = "register"
        ELSE /\ pc[w] = "return"
             /\ Range(ret[w].value) = RetainedNewer(args[w])
             /\ Len(ret[w].value) = Cardinality(RetainedNewer(args[w]))

\* a replay that returns an event held under two watched keys and leaves out
\* a retained event that is not newer than the cursor
C3_Witness ==
  /\ ReplayReturned("w1")
  /\ \E e \in Range(ret["w1"].value) :
       /\ e \in Range(Get(channel_events, "c1")) /\ e \in Range(Get(server_events, "s1"))
       /\ args["w1"].channels = <<"c1">> /\ args["w1"].servers = <<"s1">>
  /\ Retained(args["w1"]) # RetainedNewer(args["w1"])

C5_NoCursorReturnsBuffer ==
  \A w \in Calls :
    (JustChecked(w) /\ args[w].last_event_id = NoId) =>
      IF Retained(args[w]) = {}
        THEN pc[w] = "register"
        ELSE pc[w] = "return" /\ Range(ret[w].value) = Retained(args[w])

\* the step is an add_event, and this is its event
Publishes == Len(published') = Len(published) + 1
Published == published'[Len(published')]

\* C6: an add_event whose event notifies connection sets holding two distinct
\* pending waiters resolves both, each with the list of that one event
C6_FanOut ==
  [][Publishes =>
       \A w1, w2 \in Calls :
         (w1 # w2 /\ PendingOn(w1, Published) /\ PendingOn(w2, Published)) =>
           future'[w1] = Resolved(Published) /\ future'[w2] = Resolved(Published)]_vars

\* both waiters hold the event just published, and they watched different keys
C6_Witness ==
  /\ pc["w1"] = "await" /\ pc["w2"] = "await"
  /\ published # <<>>
  /\ future["w1"] = Resolved(published[Len(published)])
  /\ future["w2"] = Resolved(published[Len(published)])
  /\ args["w1"].channels # args["w2"].channels

\* the call's future is pending and sits in at least two of the connection
\* sets the event notifies
PendingOnSeveral(w, e) ==
  /\ future[w].state = "pending"
  /\ Cardinality({k \in {"user", "channel", "server"} :
        \/ k = "user" /\ e.user_id # None /\ w \in user_connections[e.user_id]
        \/ k = "channel" /\ e.channel_id # None /\ w \in channel_connections[e.channel_id]
        \/ k = "server" /\ e.server_id # None /\ w \in server_connections[e.server_id]}) >= 2

\* C7: an add_event whose event matches several keys a pending waiter is
\* registered under resolves it once, with the list of that one event, and
\* the later notifications of the same add_event neither resolve it again
\* nor raise
C7_OneShotAcrossKeys ==
  [][Publishes =>
       \A w \in Calls :
         PendingOnSeveral(w, Published) =>
           /\ future'[w] = Resolved(Published)
           /\ wakeup'[w] = "result"
           /\ ~invalid_state']_vars

\* a waiter on a channel and a server, resolved by an event carrying both keys
C7_Witness ==
  /\ pc["w1"] = "await"
  /\ args["w1"].channels = <<"c1">> /\ args["w1"].servers = <<"s1">>
  /\ \E e \in Event :
       /\ future["w1"] = Resolved(e)
       /\ e.channel_id = "c1" /\ e.server_id = "s1"
  /\ "w1" \in server_connections["s1"]

Done(f) == f.state \in {"result", "cancelled"}

C9_Deregistered ==
  \A w \in Calls : pc[w] \in {"idle", "return"} => ~Registered(w)

\* get_stats, lines 231-233: the three waiter counts
RECURSIVE Sum(_, _)
Sum(f, S) == IF S = {} THEN 0 ELSE LET x == CHOOSE y \in S : TRUE
                                   IN Cardinality(f[x]) + Sum(f, S \ {x})
WaiterCounts ==
  <<Sum(user_connections, Users), Sum(channel_connections, Channels),
    Sum(server_connections, Servers)>>

\* a cancelled call that watched a server is about to raise to its caller
C9_Witness ==
  /\ pc["w1"] = "return"
  /\ wakeup["w1"] = "cancelled"
  /\ args["w1"].servers = <<"s1">>
  /\ WaiterCounts = <<0, 0, 0>>

\* C10: a call whose timer fired returns the empty list; it does not raise
C10_TimeoutReturnsEmpty ==
  \A w \in Calls :
    (pc[w] = "return" /\ wakeup[w] = "timeout") =>
      ret[w] = [kind |-> "return", value |-> <<>>]

\* a call that timed out although its keys retain an event
C10_Witness ==
  /\ pc["w1"] = "return"
  /\ wakeup["w1"] = "timeout"
  /\ ret["w1"].kind = "return"
  /\ published # <<>>

\* the connection sets the call's future sits in
RegisteredKeys(w) ==
  <<{u \in Users : w \in user_connections[u]},
    {c \in Channels : w \in channel_connections[c]},
    {sv \in Servers : w \in server_connections[sv]}>>

\* the step cancels the suspended call, or resumes it with the cancellation
CancelStep(w) ==
  /\ pc[w] = "await"
  /\ wakeup'[w] = "cancelled"
  /\ wakeup[w] # "cancelled" \/ pc'[w] = "return"

\* C11 as claimed: once a suspended call has been cancelled it resumes with
\* the cancellation and hands no result to its caller; the cancellation
\* leaves the call in no connection set and changes neither the deques nor
\* the registration, future or position of any other call
C11_CancelNoSideEffect ==
  [][\A w \in Calls :
       /\ (wakeup[w] = "cancelled" /\ pc'[w] # "idle") => wakeup'[w] = "cancelled"
       /\ CancelStep(w) =>
            /\ logs' = logs
            /\ published' = published /\ invalid_state' = invalid_state
            /\ \A o \in Calls \ {w} :
                 /\ RegisteredKeys(o)' = RegisteredKeys(o)
                 /\ future'[o] = future[o] /\ pc'[o] = pc[o] /\ wakeup'[o] = wakeup[o]
            /\ pc'[w] = "return" =>
                 /\ ret'[w] = [kind |-> "raise", value |-> <<>>]
                 /\ RegisteredKeys(w)' = <<{}, {}, {}>>]_vars

\* C12 as claimed: whichever of a matching add_event, the timer expiry and
\* the caller's cancellation reaches a suspended call first decides what the
\* call hands to its caller, and nothing that comes later changes it; the
\* event is handed over at most once, add_event never raises on a future
\* that is already done, and the call is in no connection set once it has
\* resumed
C12_FirstWins ==
  [][\A w \in Calls :
       /\ (wakeup[w] # "none" /\ pc'[w] # "idle") => wakeup'[w] = wakeup[w]
       /\ ~invalid_state'
       /\ pc'[w] = "return" =>
            /\ RegisteredKeys(w)' = <<{}, {}, {}>>
            /\ future'[w].state # "none" => Len(ret'[w].value) <= 1]_vars

\* the last n elements of a sequence
LastN(s, n) == IF Len(s) <= n THEN s ELSE SubSeq(s, Len(s) - n + 1, Len(s))

\* what a replay from below every id yields for one key
ReplayOf(ue, ce, se, kind, k) ==
  GetMissedEvents(ue, ce, se,
                  [user_id |-> IF kind = "user" THEN k ELSE None, last_event_id |-> 0,
                   channels |-> IF kind = "channel" THEN <<k>> ELSE <<>>,
                   servers |-> IF kind = "server" THEN <<k>> ELSE <<>>])

\* C13: every deque holds at most LogCapacity events, and an add_event leaves
\* in the deque of each key of its event the last LogCapacity events of the
\* old deque followed by the new one: with a full deque the oldest is gone;
\* a replay of that key from below every id yields exactly these events
C13_BoundedHistory ==
  [][/\ \A u \in DOMAIN user_events' : Len(user_events'[u]) <= LogCapacity
     /\ \A c \in DOMAIN channel_events' : Len(channel_events'[c]) <= LogCapacity
     /\ \A sv \in DOMAIN server_events' : Len(server_events'[sv]) <= LogCapacity
     /\ Publishes =>
          /\ Published.user_id # None =>
               /\ user_events'[Published.user_id] =
                    LastN(Append(Get(user_events, Published.user_id), Published), LogCapacity)
               /\ Range(ReplayOf(user_events', channel_events', server_events', "user", Published.user_id)) =
                    Range(user_events'[Published.user_id])
          /\ Published.channel_id # None =>
               /\ channel_events'[Published.channel_id] =
                    LastN(Append(Get(channel_events, Published.channel_id), Published), LogCapacity)
               /\ Range(ReplayOf(user_events', channel_events', server_events', "channel", Published.channel_id)) =
                    Range(channel_events'[Published.channel_id])
          /\ Published.server_id # None =>
               /\ server_events'[Published.server_id] =
                    LastN(Append(Get(server_events, Published.server_id), Published), LogCapacity)
               /\ Range(ReplayOf(user_events', channel_events', server_events', "server", Published.server_id)) =
                    Range(server_events'[Published.server_id])]_vars

\* LogCapacity + 1 events were published to channel c1 while nobody waited,
\* and a replay of c1 from below every id returns the last LogCapacity of
\* them, without the first
C13_Witness ==
  /\ Len(published) = LogCapacity + 1
  /\ \A i \in 1..Len(published) : published[i].channel_id = "c1"
  /\ ReplayReturned("w1")
  /\ args["w1"].last_event_id = 0
  /\ args["w1"].channels = <<"c1">> /\ args["w1"].servers = <<>>
  /\ Range(ret["w1"].value) = {published[i] : i \in 2..Len(published)}
  /\ published[1] \notin Range(ret["w1"].value)
  /\ published[1].user_id = None

\* the events a replay from below every id can reach after the step
ReplayableAfter ==
  UNION {Range(ReplayOf(user_events', channel_events', server_events', "user", u)) : u \in Users}
    \cup UNION {Range(ReplayOf(user_events', channel_events', server_events', "channel", c)) :
                  c \in Channels}
    \cup UNION {Range(ReplayOf(user_events', channel_events', server_events', "server", sv)) :
                  sv \in Servers}

NoEmptyLog(d) == \A k \in DOMAIN d : d[k] # <<>>

\* C14 as claimed: when cleanup_old_events has run with a cutoff, no event
\* with a timestamp before the cutoff can be reached by a replay, in whatever
\* order the timestamps sit in the deques, and no key is left with an empty
\* deque
C14_CleanupComplete ==
  [][\A cutoff \in Cutoffs :
       Cleanup(cutoff) =>
         /\ \A e \in ReplayableAfter : e.timestamp >= cutoff
         /\ NoEmptyLog(user_events') /\ NoEmptyLog(channel_events')
         /\ NoEmptyLog(server_events')]_vars

\* C15 as claimed: no key of user_events, channel_events or server_events is
\* mapped to an empty deque
C15_NoEmptyBuckets ==
  NoEmptyLog(user_events) /\ NoEmptyLog(channel_events) /\ NoEmptyLog(server_events)

\* the repeated call found nothing newer than its cursor when it first began
NothingNewer ==
  GetMissedEvents(repeated.logs[1], repeated.logs[2], repeated.logs[3], repeated.a) = <<>>

\* C16 as claimed: a call repeated with the same arguments and no publish in
\* between, which finds nothing newer than its cursor, returns the empty list
\* both times, and when the second call has returned the connection sets and
\* the deques are what they were before the first
C16_RepeatLeavesNoTrace ==
  (repeated.n >= 1 /\ NothingNewer) =>
    /\ pc["w1"] = "return" => ret["w1"] = [kind |-> "return", value |-> <<>>]
    /\ (repeated.n = 2 /\ pc["w1"] = "idle") =>
         /\ conns = repeated.conns
         /\ logs = repeated.logs

\* the long-polling calls suspended with a pending future in the channel's
\* connection set
PendingPollers(channel_id) ==
  {w \in Calls : /\ pc[w] = "await"
                  /\ future[w].state = "pending"
                  /\ w \in channel_connections[channel_id]}

\* the open SSE streams registered on the channel
ChannelSinks(channel_id) == GetSet(sse_channel_connections, channel_id)

\* C17 as claimed: a message created in a channel is appended to the
\* channel's replay log, is put on the queue of every push sink registered on
\* the channel whose put does not fail, and resolves the future of every
\* poll waiter pending on the channel
C17_PublishReachesBoth ==
  [][\A c \in Channels :
       CreateMessage(c) =>
         /\ Get(channel_events', c) # Get(channel_events, c)
         /\ \A q \in ChannelSinks(c) \ put_failed' :
              queue'[q] = Append(queue[q], broadcast_log'[Len(broadcast_log')])
         /\ \A w \in PendingPollers(c) : future'[w].state = "result"]_vars

\* asyncio.Queue() (sse/events.py, 151 and 218) is built without maxsize, so
\* the code names no capacity; SinkCapacity is the greatest capacity a
\* behaviour of MaxBroadcasts broadcasts can exceed
SinkCapacity == MaxBroadcasts - 1

\* C18 as claimed: no sink's queue ever holds more undelivered events than a
\* fixed capacity, whatever the consumer does
C18_QueueBounded == \A q \in Sinks : Len(queue[q]) <= SinkCapacity

\* the step is a broadcast, of the event LastBroadcast', to the queues
\* registered under its key before the step
Broadcasts == Len(broadcast_log') = Len(broadcast_log) + 1
LastBroadcast == broadcast_log[Len(broadcast_log)]
BroadcastTargets(ev) ==
  CASE ev.kind = "user" -> GetSet(sse_user_connections, ev.key)
    [] ev.kind = "channel" -> GetSet(sse_channel_connections, ev.key)
    [] ev.kind = "server" -> GetSet(sse_server_connections, ev.key)
    [] OTHER -> global_connections

\* C19: in every broadcast, each queue registered under the key whose put
\* does not fail holds the event as its newest entry afterwards, whichever
\* puts of the same broadcast failed, and the broadcast does not raise
C19_FailureIsolated ==
  [][Broadcasts =>
       /\ \A q \in BroadcastTargets(LastBroadcast') \ put_failed' :
            queue'[q] = Append(queue[q], LastBroadcast')
       /\ ~sse_raised']_vars

\* a broadcast to two queues has just failed on q1 and delivered to q2
C19_Witness ==
  /\ broadcast_log # <<>>
  /\ put_failed = {"q1"}
  /\ ~sse_raised
  /\ queue["q2"] # <<>>
  /\ queue["q2"][Len(queue["q2"])] = LastBroadcast
  /\ \A i \in DOMAIN queue["q1"] : queue["q1"][i] # LastBroadcast

\* the queue is in some connection set of the SSE manager
SinkRegistered(uc, cc, sc, gc, q) ==
  \/ \E k \in DOMAIN uc : q \in uc[k]
  \/ \E k \in DOMAIN cc : q \in cc[k]
  \/ \E k \in DOMAIN sc : q \in sc[k]
  \/ q \in gc

\* C20 as claimed: after a broadcast, a queue whose put failed in it is in no
\* connection set of the manager, under any key
C20_FailedSinkDeregistered ==
  [][Broadcasts =>
       \A q \in put_failed' :
         ~SinkRegistered(sse_user_connections', sse_channel_connections',
                         sse_server_connections', global_connections', q)]_vars

\* C21: no closed stream's queue is in any connection set of the SSE
\* manager: the finally block of a stream removes its queue from the user
\* key and, for a channel stream, from the channel key it was added to,
\* whatever the broadcasts have discarded before
C21_ClosedSinkUnregistered ==
  \A q \in Sinks :
    stream[q] = Closed =>
      ~SinkRegistered(sse_user_connections, sse_channel_connections,
                      sse_server_connections, global_connections, q)

\* q1 was open in the last broadcast (its put failed) and has ended since,
\* while the channel stream q2 of the same user is still open
C21_Witness ==
  /\ put_failed = {"q1"}
  /\ stream["q1"] = Closed
  /\ stream["q2"].kind = "channel"
  /\ sse_user_connections = [u \in {stream["q2"].user_id} |-> {"q2"}]
  /\ sse_channel_connections = [c \in {stream["q2"].channel_id} |-> {"q2"}]

\* the event carries no subject key
NoSubject(e) == e.user_id = None /\ e.channel_id = None /\ e.server_id = None

\* C22: add_event of an event without subject keys changes no deque and no
\* connection set and resolves or wakes no call, and no call ever hands
\* such an event to its caller
C22_NoSubjectNotDelivered ==
  [][/\ (Publishes /\ NoSubject(Published)) =>
          UNCHANGED <<logs, conns, future, wakeup, pc, ret>>
     /\ \A w \in Calls : \A i \in DOMAIN ret'[w].value : ~NoSubject(ret'[w].value[i])]_vars

\* the poll client is suspended on its pending, registered future and the one
\* event published since its call began has no subject key
C22_Witness ==
  /\ pc["w1"] = "await"
  /\ future["w1"].state = "pending"
  /\ "w1" \in user_connections["u1"]
  /\ sincePoll = 1
  /\ NoSubject(published[Len(published)])

\* C23 as claimed: the events add_event appends to a deque carry ids that
\* increase strictly in publish order
C23_IdsIncreaseInPublishOrder ==
  \A i, j \in DOMAIN published :
    (i < j /\ ~NoSubject(published[i]) /\ ~NoSubject(published[j])) =>
      published[i].id < published[j].id

\* C24: every wait_for_events call that has started comes back to its
\* caller, with events, with [] or with the cancellation, whatever the other
\* call, the publishes and the cancellations do
C24_CallTerminates ==
  \A w \in Calls : (pc[w] # "idle") ~> (pc[w] = "idle")

\* both calls are suspended on pending futures and no publish is left to
\* come: only the timer or a cancellation can end them
C24_Witness ==
  /\ \A w \in Calls : pc[w] = "await" /\ future[w].state = "pending" /\ wakeup[w] = "none"
  /\ Len(published) = MaxEvents

\* the event is in the deque of the key
InLog(d, k, e) == \E i \in DOMAIN Get(d, k) : Get(d, k)[i] = e

\* C25: in every add_event, a block that resolves a waiter has appended the
\* event to the deque of its key, and when add_event is over (nothing else
\* runs before that, as add_event never suspends) the event is in the deque
\* of every subject key it carries
C25_AppendBeforeNotify ==
  [][Publishes =>
       LET e == Published
           u == AfterUser(e)
           c == AfterChannel(e, u.fut)
           s == AfterServer(e, c.fut)
       IN /\ u.wk # {} => InLog(u.ev, e.user_id, e)
          /\ c.wk # {} => InLog(c.ev, e.channel_id, e)
          /\ s.wk # {} => InLog(s.ev, e.server_id, e)
          /\ e.user_id # None => InLog(user_events', e.user_id, e)
          /\ e.channel_id # None => InLog(channel_events', e.channel_id, e)
          /\ e.server_id # None => InLog(server_events', e.server_id, e)
          /\ running' = None]_vars

\* a waiter has just been resolved by an event carrying a user and a channel
\* key, and the event is in the deques of both
C25_Witness ==
  /\ pc["w1"] = "await"
  /\ published # <<>>
  /\ LET e == published[Len(published)]
     IN /\ future["w1"] = Resolved(e)
        /\ e.user_id # None /\ e.channel_id # None
        /\ InLog(user_events, e.user_id, e)
        /\ InLog(channel_events, e.channel_id, e)

\* C26 as claimed: a call that has made its replay check and has not yet
\* registered holds the lock
C26_SingleCriticalSection ==
  \A w \in Calls : pc[w] = "register" => lock = w

\* C26, amended: the replay check and the registration are two critical
\* sections with no suspension between them; from the state between the two
\* the only step is the registration of that call, so no add_event and no
\* cleanup_old_events runs in between and the deques the call has checked
\* are the deques it registers against
C26_NothingRunsBetween ==
  [][\A w \in Calls :
       pc[w] = "register" =>
         /\ pc'[w] = "await"
         /\ logs' = logs
         /\ published' = published]_vars

\* a call with a cursor stands between its replay check and its
\* registration and the lock is free, while a deque holds an event a cleanup
\* could remove and a publish is still to come
C26_Witness ==
  /\ pc["w1"] = "register"
  /\ running = "w1"
  /\ lock = None
  /\ args["w1"].last_event_id # NoId
  /\ \E c \in Channels : Get(channel_events, c) # <<>>
  /\ Len(published) < LogCapacity + 1

\* C27: a call suspended at the await of wait_for does not hold the lock,
\* and the lock is free whenever the event loop picks the next task
C27_LockFreeWhileSuspended ==
  /\ \A w \in Calls : pc[w] = "await" => lock # w
  /\ running = None => lock = None

\* two calls are suspended on pending futures and an add_event can run
C27_Witness ==
  /\ \A w \in Calls : pc[w] = "await" /\ future[w].state = "pending"
  /\ lock = None
  /\ ENABLED (\E e \in Event : AddEventInOrder(e))

\* C28: a call whose replay check finds a missed event hands the missed
\* events to its caller in the same step: it creates no future, enters no
\* connection set, leaves every connection set as it was and keeps the loop
\* until it has returned
C28_ReplayReturnsAtOnce ==
  [][\A w \in Calls :
       /\ (/\ pc[w] = "idle"
           /\ pc'[w] # "idle"
           /\ GetMissedEvents(user_events, channel_events, server_events, args'[w]) # <<>>) =>
            /\ pc'[w] = "return"
            /\ ret'[w] = [kind |-> "return",
                          value |-> GetMissedEvents(user_events, channel_events,
                                                    server_events, args'[w])]
            /\ future'[w] = NoFuture
            /\ conns' = conns
            /\ running' = w
       /\ ReplayReturned(w) =>
            /\ pc'[w] = "idle"
            /\ conns' = conns
            /\ \A v \in Calls \ {w} : future'[v] = future[v] /\ wakeup'[v] = wakeup[v]]_vars

\* w1 is about to return a replayed event of channel c1 while w2 is
\* suspended, registered on that channel with its future pending
C28_Witness ==
  /\ ReplayReturned("w1")
  /\ ret["w1"].value # <<>>
  /\ ret["w1"].value[1].channel_id = "c1"
  /\ pc["w2"] = "await"
  /\ future["w2"].state = "pending"
  /\ "w2" \in channel_connections["c1"]

\* the step removes an event or a key from a replay dict; only
\* cleanup_old_events does (add_event and the replay check only add)
Shrinks(d, dd) == \E k \in DOMAIN d : k \notin DOMAIN dd \/ Len(dd[k]) < Len(d[k])
SweepStep ==
  /\ published' = published
  /\ \/ Shrinks(user_events, user_events')
     \/ Shrinks(channel_events, channel_events')
     \/ Shrinks(server_events, server_events')

\* C29: a cleanup run that removes something from the replay dicts changes
\* no waiter connection set and no SSE registration or queue, and leaves
\* every call where it was, with its future and wake-up as they were
C29_CleanupTouchesLogsOnly ==
  [][SweepStep =>
       /\ conns' = conns
       /\ sse_conns' = sse_conns
       /\ queue' = queue /\ stream' = stream
       /\ future' = future /\ wakeup' = wakeup
       /\ pc' = pc /\ ret' = ret]_vars

\* a cleanup has removed the only event published, of a channel on which a
\* poll caller is suspended and an SSE stream is registered with a message
\* in its queue
C29_Witness ==
  /\ Len(published) = 1
  /\ published[1].channel_id = "c1"
  /\ logs = <<<<>>, <<>>, <<>>>>
  /\ pc["w1"] = "await" /\ future["w1"].state = "pending"
  /\ "w1" \in channel_connections["c1"]
  /\ ChannelSinks("c1") = {"q1"}
  /\ queue["q1"] # <<>>

\* DiscardFails gone wrong: set.remove, which raises KeyError when the
\* element is not in the set
RemoveFails(S, x) == x \notin S

\* set.discard (manager.py 145-153, sse/events.py 36, 46, 56) raises nothing,
\* whether or not the element is in the set
DiscardFails(S, x) == FALSE

\* the discards of the finally block of wait_for_events (lines 145-153),
\* applied to the three connection dicts for the call w with arguments a
FinallyDiscard(cn, a, w) ==
  <<[cn[1] EXCEPT ![a.user_id] = @ \ {w}],
    DiscardAll(cn[2], a.channels, w),
    DiscardServers(cn[3], a.servers, w)>>

\* one of the discards of the finally block of the call raises, in the
\* connection dicts cn
FinallyFails(cn, a, w) ==
  \/ DiscardFails(cn[1][a.user_id], w)
  \/ \E i \in DOMAIN a.channels : DiscardFails(cn[2][a.channels[i]], w)
  \/ \E i \in DOMAIN a.servers : DiscardFails(cn[3][a.servers[i]], w)

\* the step is the cleanup of the call w / the end of the stream q
CleansUp(w) == pc[w] = "await" /\ pc'[w] = "return"
Closes(q) == stream[q] # Closed /\ stream'[q] = Closed

\* C30: the discards of the finally block raise nothing, also for a key from
\* which the notification has already removed the future, and done once more
\* on the state they leave they raise nothing and change nothing; the same
\* holds for remove_user_connection, remove_channel_connection and
\* remove_server_connection once a stream has ended
C30_DeregistrationIdempotent ==
  [][/\ \A w \in Calls :
          CleansUp(w) =>
            /\ ~FinallyFails(conns, args[w], w)
            /\ ~FinallyFails(conns', args[w], w)
            /\ FinallyDiscard(conns', args[w], w) = conns'
            /\ FinallyCancel(future'[w]) = future'[w]
     /\ \A q \in Sinks :
          Closes(q) =>
            /\ \A u \in Users :
                 /\ ~DiscardFails(GetSet(sse_user_connections', u), q)
                 /\ RemoveConnection(sse_user_connections', u, q) = sse_user_connections'
            /\ \A c \in Channels :
                 /\ ~DiscardFails(GetSet(sse_channel_connections', c), q)
                 /\ RemoveConnection(sse_channel_connections', c, q) = sse_channel_connections'
            /\ \A sv \in Servers :
                 /\ ~DiscardFails(GetSet(sse_server_connections', sv), q)
                 /\ RemoveConnection(sse_server_connections', sv, q) = sse_server_connections']_vars

\* the call has just cleaned up after a publish resolved its future and took
\* it out of the channel's set, and the stream q1, open at the last
\* broadcast, has ended
C30_Witness ==
  /\ pc["w1"] = "return"
  /\ future["w1"].state = "result"
  /\ future["w1"].value[1].channel_id = "c1"
  /\ put_failed = {"q1"}
  /\ stream["q1"] = Closed

\* the call's future sits in a connection set of one of the event's keys
RegisteredOn(w, e) ==
  \/ e.user_id # None /\ w \in user_connections[e.user_id]
  \/ e.channel_id # None /\ w \in channel_connections[e.channel_id]
  \/ e.server_id # None /\ w \in server_connections[e.server_id]

\* C31: an add_event resolves a pending future only if the future sits in
\* the connection set of one of the event's keys, and the event then matches
\* the filter of the call (its user, its channels, its servers); every other
\* future is left as it was
C31_NoSpuriousDelivery ==
  [][Publishes =>
       \A w \in Calls :
         /\ (future[w].state = "pending" /\ future'[w].state = "result") =>
              /\ RegisteredOn(w, Published)
              /\ Matches(Published, args[w])
         /\ ~RegisteredOn(w, Published) =>
              future'[w] = future[w] /\ wakeup'[w] = wakeup[w]]_vars

\* a publish to channel c1 has resolved the call that watches c1, while the
\* other call, registered under the user and watching no channel, is still
\* pending
C31_Witness ==
  /\ pc["w1"] = "await" /\ pc["w2"] = "await"
  /\ published # <<>>
  /\ LET e == published[Len(published)]
     IN /\ e.user_id = None /\ e.channel_id = "c1" /\ e.server_id = None
        /\ future["w1"] = Resolved(e)
  /\ future["w2"].state = "pending"
  /\ args["w2"].channels = <<>>
  /\ "w2" \in user_connections["u1"]

\* C32: a publish that resolves a pending future stores the list of that one
\* event in it, and a call that resumes with a resolved future hands exactly
\* that list to its caller
C32_ResultIsWakingEvent ==
  [][\A w \in Calls :
       /\ (Publishes /\ future[w].state = "pending" /\ future'[w].state = "result") =>
            future'[w].value = <<Published>>
       /\ (CleansUp(w) /\ future[w].state = "result") =>
            /\ ret'[w] = [kind |-> "return", value |-> future[w].value]
            /\ Len(ret'[w].value) = 1
            /\ \E i \in DOMAIN published : published[i] = ret'[w].value[1]]_vars

\* the call is about to return the second event published to channel c1
\* alone, although the first one, published to the same channel before the
\* call registered, is still in the deque
C32_Witness ==
  /\ pc["w1"] = "return"
  /\ Len(published) = 2
  /\ published[1].channel_id = "c1" /\ published[2].channel_id = "c1"
  /\ ret["w1"] = [kind |-> "return", value |-> <<published[2]>>]
  /\ Get(channel_events, "c1") = <<published[1], published[2]>>

\* C33: an add_event of an event carrying a key under which a future that
\* is already done (resolved or cancelled) is still registered leaves that
\* future as it is and raises nothing, resolves every pending future
\* registered under the event's keys, and appends the event to the deque of
\* each of its keys
C33_DoneWaiterSkipped ==
  [][Publishes =>
       \A w \in Calls :
         (Done(future[w]) /\ RegisteredOn(w, Published)) =>
           /\ future'[w] = future[w]
           /\ ~invalid_state'
           /\ \A v \in Calls \ {w} :
                PendingOn(v, Published) => future'[v] = Resolved(Published)
           /\ Published.user_id # None => InLog(user_events', Published.user_id, Published)
           /\ Published.channel_id # None =>
                InLog(channel_events', Published.channel_id, Published)
           /\ Published.server_id # None =>
                InLog(server_events', Published.server_id, Published)]_vars

\* w1, resolved by the first event (channel c1 only) and not yet resumed, is
\* still in the user's set when the second event, addressed to the user,
\* resolves w2: w1 keeps the first event
C33_Witness ==
  /\ pc["w1"] = "await" /\ pc["w2"] = "await"
  /\ Len(published) = 2
  /\ published[1].user_id = None /\ published[1].channel_id = "c1"
  /\ published[2].user_id = "u1"
  /\ future["w1"] = Resolved(published[1])
  /\ future["w2"] = Resolved(published[2])
  /\ "w1" \in user_connections["u1"]
  /\ ~invalid_state

\* the events of the user's deque that are newer than the cursor
NewerUserEvents(a) ==
  {e \in Range(Get(user_events, a.user_id)) : IsNewer(e, a.last_event_id)}

\* C34: a suspended call with a pending future is in the set of its own
\* user, and a call that passed no channels and no servers is in that set
\* and in no other; an event addressed to a user resolves every pending call
\* of that user; and the replay check of a call with a cursor returns every
\* newer event of the user's deque, whatever channels and servers it passed
C34_UserKeyAlwaysWatched ==
  [][\A w \in Calls :
       /\ (pc'[w] = "await" /\ future'[w].state = "pending") =>
            /\ w \in user_connections'[args'[w].user_id]
            /\ (args'[w].channels = <<>> /\ args'[w].servers = <<>>) =>
                 /\ \A c \in Channels : w \notin channel_connections'[c]
                 /\ \A sv \in Servers : w \notin server_connections'[sv]
       /\ (/\ Publishes
           /\ Published.user_id # None
           /\ pc[w] = "await" /\ future[w].state = "pending"
           /\ args[w].user_id = Published.user_id) =>
            future'[w] = Resolved(Published)
       /\ (/\ pc[w] = "idle" /\ pc'[w] # "idle"
           /\ ~CursorAbsent(args'[w].last_event_id)
           /\ NewerUserEvents(args'[w]) # {}) =>
            /\ pc'[w] = "return"
            /\ NewerUserEvents(args'[w]) \subseteq Range(ret'[w].value)]_vars

\* an event addressed to the user only has resolved both calls: w1, which
\* had passed a cursor and no channel, and w2, which watches channel c1
C34_Witness ==
  /\ pc["w1"] = "await" /\ pc["w2"] = "await"
  /\ published # <<>>
  /\ LET e == published[Len(published)]
     IN /\ e.user_id = "u1" /\ e.channel_id = None /\ e.server_id = None
        /\ future["w1"] = Resolved(e)
        /\ future["w2"] = Resolved(e)
  /\ args["w1"].channels = <<>> /\ args["w1"].servers = <<>>
  /\ args["w2"].channels = <<"c1">>

\* the events published with the key, in publish order
PublishedTo(kind, k) ==
  SelectSeq(published, LAMBDA e : CASE kind = "user" -> e.user_id = k
                                    [] kind = "channel" -> e.channel_id = k
                                    [] OTHER -> e.server_id = k)

\* the deque is what is left of the sequence when entries are taken from
\* its front only
IsTailOf(log, s) == Len(log) <= Len(s) /\ log = LastN(s, Len(log))

\* C35: every deque holds, in publish order and without a gap, the last of
\* the events published with its key: an append goes to the end and the
\* eviction of a full deque takes the head and nothing else
C35_PublishOrderKept ==
  /\ \A u \in Users : IsTailOf(Get(user_events, u), PublishedTo("user", u))
  /\ \A c \in Channels : IsTailOf(Get(channel_events, c), PublishedTo("channel", c))
  /\ \A sv \in Servers : IsTailOf(Get(server_events, sv), PublishedTo("server", sv))

\* one more event than a deque holds has been published to user u1: the
\* first one is gone and the others are there in publish order
C35_Witness ==
  /\ Len(published) = LogCapacity + 1
  /\ \A i \in DOMAIN published : published[i].user_id = "u1"
  /\ Get(user_events, "u1") = Tail(published)

\* what a cleanup with the cutoff may make of a deque: the entries removed
\* are a leading run, each older than the cutoff, and the first entry kept,
\* if any, is not older than the cutoff
SweptFrom(old, new, cutoff) ==
  /\ IsTailOf(new, old)
  /\ \A i \in 1..(Len(old) - Len(new)) : old[i].timestamp < cutoff
  /\ new # <<>> => Head(new).timestamp >= cutoff

\* C36: a cleanup removes from each deque a leading run of entries older
\* than the cutoff and nothing else: it stops at the first entry that is not
\* older, removes no entry at or after the cutoff, and keeps the survivors
\* in their order
C36_CleanupRemovesLeadingRun ==
  [][\A cutoff \in Cutoffs :
       Cleanup(cutoff) =>
         /\ \A u \in Users :
              SweptFrom(Get(user_events, u), Get(user_events', u), cutoff)
         /\ \A c \in Channels :
              SweptFrom(Get(channel_events, c), Get(channel_events', c), cutoff)
         /\ \A sv \in Servers :
              SweptFrom(Get(server_events, sv), Get(server_events', sv), cutoff)]_vars

\* a cleanup has taken the older of the two events of channel c1 and kept
\* the newer one
C36_Witness ==
  /\ Len(published) = 2
  /\ published[1].channel_id = "c1" /\ published[2].channel_id = "c1"
  /\ published[1].timestamp < published[2].timestamp
  /\ Get(channel_events, "c1") = <<published[2]>>

\* the events of the queue are in broadcast order, none of them twice
InBroadcastOrder(s) == \A i, j \in DOMAIN s : i < j => s[i].seq < s[j].seq

\* C37: every queue holds its events in the order of the broadcasts, each
\* once; a broadcast puts its event at the end of the queue of each sink
\* registered under its key (unless that put fails) and leaves every other
\* queue alone; a broadcast on a key with no registered sink changes no
\* queue and no connection dict
C37_EnqueuedInBroadcastOrder ==
  [][/\ \A q \in Sinks : InBroadcastOrder(queue'[q])
     /\ Broadcasts =>
          /\ \A q \in BroadcastTargets(LastBroadcast') \ put_failed' :
               queue'[q] = Append(queue[q], LastBroadcast')
          /\ \A q \in Sinks \ BroadcastTargets(LastBroadcast') : queue'[q] = queue[q]
          /\ BroadcastTargets(LastBroadcast') = {} =>
               queue' = queue /\ sse_conns' = sse_conns]_vars

\* the queue of a channel stream holds a broadcast to its user followed by a
\* broadcast to its channel, and the keys of the closed stream q1 are not in
\* the dicts
C37_Witness ==
  /\ Len(broadcast_log) = 2
  /\ broadcast_log[1].kind = "user" /\ broadcast_log[2].kind = "channel"
  /\ stream["q2"].kind = "channel"
  /\ queue["q2"] = broadcast_log
  /\ stream["q1"] = Closed
  /\ DOMAIN sse_server_connections = {}

====
